---------------------------- MODULE Spec2Model ----------------------------
(***************************************************************************)
(* A model of the migration worker of src/src/data_migration.py:           *)
(* placeholder expansion, rule parsing, the match engine (should_copy),    *)
(* the tree scanner and the copy job run() with its cooperative stop().    *)
(*                                                                         *)
(* Text is a sequence of one-character strings.  Patterns, relative paths  *)
(* and file lines are such sequences.                                      *)
(***************************************************************************)
EXTENDS Integers, Sequences, FiniteSets, TLC

VARIABLES
    \* the worker as constructed (MigrationWorker.__init__) and its platform
    from_path,  \* self.from_path
    to_path,    \* self.to_path
    osSep,      \* os.sep: "/" (posix) or "\\" (nt)
    \* match engine harness: one call of should_copy(rel_path, rules)
    mPc,        \* "call" before the call, "ret" after it
    mPath,      \* rel_path
    mRules,     \* rules: sequence of [pattern, isExclude]
    mMatch,     \* per rule, the value of the local `match` in the loop
    mDecision,  \* the returned decision
    \* placeholder expander harness: one call of _expand_placeholders(text)
    xPc,        \* "call" before the call, "ret" after it
    xText,      \* text
    xOut,       \* the returned text
    \* rule parser harness: one call of parse_rules(config_path)
    pPc,        \* "call" before the call, "ret" after it
    pStatus,    \* the file at config_path: "missing", "readable", "unreadable"
    pLines,     \* its lines (a readable file)
    pResult,    \* [raised, rules]: an exception left the call, or its list
    \* the job: MigrationWorker.run() and stop(), and the files it works on
    pc,            \* where run() is
    is_running,    \* self.is_running
    srcExists,     \* os.path.exists(self.from_path)
    srcTree,       \* the files under from_path, each a sequence of names
    dstInit,       \* the files under to_path when run() starts
    dstTree,       \* the files under to_path: relative path -> content
    cfgStatus,     \* the file at migration_rule_file, as pStatus
    cfgLines,      \* its lines
    jobRules,      \* the local `rules` of run()
    files_to_copy, \* the local `files_to_copy`
    copied_count,  \* the local `copied_count`
    attempts,      \* the copy attempts made so far: [path, ok]
    progress,      \* the progress_update events emitted so far
    finished,      \* the finished events emitted so far
    stop_at        \* where run() was when stop() cleared the flag (history)

workerVars == <<from_path, to_path, osSep>>

matchVars == <<mPc, mPath, mRules, mMatch, mDecision>>

expandVars == <<xPc, xText, xOut>>

parseVars == <<pPc, pStatus, pLines, pResult>>

runVars ==
    <<pc, is_running, srcExists, srcTree, dstInit, dstTree, cfgStatus, cfgLines,
      jobRules, files_to_copy, copied_count, attempts, progress, finished,
      stop_at>>

vars == <<workerVars, matchVars, expandVars, parseVars, runVars>>

----------------------------------------------------------------------------
(* Bounds of the model. *)

\* longest rule pattern enumerated for a single-rule call
MaxPatLen == 3
\* longest relative path enumerated
MaxPathLen == 5
\* longest rule list enumerated (over SampleRules)
MaxRules == 3
\* longest text enumerated for the placeholder expander
MaxTextLen == 6
\* longest line enumerated for a one-line rule file
MaxLineLen == 5
\* most lines of a rule file built from SampleLines
MaxLines == 2
\* most files of the source tree of a job
MaxSrcFiles == 3
\* most files already in the destination tree of a job
MaxDstFiles == 1

----------------------------------------------------------------------------
(* Text helpers. *)

SeqsUpTo(S, n) == UNION {[1..k -> S] : k \in 0..n}

SetMin(S) == CHOOSE x \in S : \A y \in S : x <= y

SetMax(S) == CHOOSE x \in S : \A y \in S : x >= y

\* s[a..b], empty when a > b
Slice(s, a, b) == IF a > b THEN <<>> ELSE SubSeq(s, a, b)

\* str.endswith for a single character
EndsWithChar(s, c) == Len(s) > 0 /\ s[Len(s)] = c

\* str.startswith for a single character
StartsWithChar(s, c) == Len(s) > 0 /\ s[1] = c

\* str.rstrip(c): every trailing c is removed
RStripChar(s, c) ==
    LET keep == {i \in 1..Len(s) : s[i] # c}
    IN  IF keep = {} THEN <<>> ELSE SubSeq(s, 1, SetMax(keep))

----------------------------------------------------------------------------
(* fnmatch.fnmatch(name, pat) as fnmatch.translate builds it: '*' is any    *)
(* run of characters ('/' included), '?' is any one character, '[...]' is  *)
(* a character class ('!' negates, a ']' right after the opening is a      *)
(* member), an unclosed '[' is a literal.  There is no escape character.   *)
(* Ranges ('-') are outside the alphabets used here.  normcase is that of  *)
(* posixpath (no change of the text).                                      *)

\* index of the ']' closing the '[' at pat[i], or 0 when it is not closed
BracketClose(pat, i) ==
    LET n  == Len(pat)
        j0 == i + 1
        j1 == IF j0 <= n /\ pat[j0] = "!" THEN j0 + 1 ELSE j0
        j2 == IF j1 <= n /\ pat[j1] = "]" THEN j1 + 1 ELSE j1
        cl == {j \in j2..n : pat[j] = "]"}
    IN  IF cl = {} THEN 0 ELSE SetMin(cl)

\* whether character c is accepted by the class opened at pat[i], closed at j
InClass(pat, i, j, c) ==
    LET neg   == pat[i + 1] = "!"
        first == IF neg THEN i + 2 ELSE i + 1
        mem   == {pat[q] : q \in first..(j - 1)}
    IN  (c \in mem) # neg

RECURSIVE GlobFrom(_, _, _, _)
GlobFrom(pat, i, name, k) ==
    IF i > Len(pat) THEN k > Len(name)
    ELSE IF pat[i] = "*" THEN
        GlobFrom(pat, i + 1, name, k)
        \/ (k <= Len(name) /\ GlobFrom(pat, i, name, k + 1))
    ELSE IF pat[i] = "?" THEN
        k <= Len(name) /\ GlobFrom(pat, i + 1, name, k + 1)
    ELSE IF pat[i] = "[" /\ BracketClose(pat, i) > 0 THEN
        LET j == BracketClose(pat, i)
        IN  k <= Len(name) /\ InClass(pat, i, j, name[k])
            /\ GlobFrom(pat, j + 1, name, k + 1)
    ELSE
        k <= Len(name) /\ name[k] = pat[i] /\ GlobFrom(pat, i + 1, name, k + 1)

fnmatch(name, pat) == GlobFrom(pat, 1, name, 1)

----------------------------------------------------------------------------
(* The match engine: MigrationWorker.should_copy. *)

\* mutant: only one trailing '/' is removed from a directory pattern
RuleMatch_StripOne(pattern, rel_path) ==
    IF EndsWithChar(pattern, "/") THEN
        LET clean_pattern == SubSeq(pattern, 1, Len(pattern) - 1)
        IN  fnmatch(rel_path, clean_pattern)
            \/ fnmatch(rel_path, clean_pattern \o <<"/", "*">>)
    ELSE fnmatch(rel_path, pattern)

\* mutant: the file must lie directly in the directory ('/?*' on one segment)
RuleMatch_OneLevel(pattern, rel_path) ==
    IF EndsWithChar(pattern, "/") THEN
        LET clean_pattern == RStripChar(pattern, "/")
        IN  fnmatch(rel_path, clean_pattern)
            \/ \E q \in 1..Len(rel_path) :
                  /\ rel_path[q] = "/"
                  /\ fnmatch(SubSeq(rel_path, 1, q - 1), clean_pattern)
                  /\ \A r \in (q + 1)..Len(rel_path) : rel_path[r] # "/"
    ELSE fnmatch(rel_path, pattern)

\* the value of `match` for one rule (the body of the loop, lines 190-214)
RuleMatch(pattern, rel_path) ==
    IF EndsWithChar(pattern, "/") THEN
        LET clean_pattern == RStripChar(pattern, "/")
        IN  fnmatch(rel_path, clean_pattern)
            \/ fnmatch(rel_path, clean_pattern \o <<"/", "*">>)
    ELSE fnmatch(rel_path, pattern)

\* mutant: the first matching rule decides (a break after the first match)
RECURSIVE ShouldCopyFrom_FirstWins(_, _, _, _)
ShouldCopyFrom_FirstWins(rel_path, rules, i, decision) ==
    IF i > Len(rules) THEN decision
    ELSE IF RuleMatch(rules[i].pattern, rel_path)
         THEN ~rules[i].isExclude
         ELSE ShouldCopyFrom_FirstWins(rel_path, rules, i + 1, decision)

\* the loop of should_copy from rule i on, `decision` being its running value
RECURSIVE ShouldCopyFrom(_, _, _, _)
ShouldCopyFrom(rel_path, rules, i, decision) ==
    IF i > Len(rules) THEN decision
    ELSE ShouldCopyFrom(rel_path, rules, i + 1,
            IF RuleMatch(rules[i].pattern, rel_path)
            THEN (IF rules[i].isExclude THEN FALSE ELSE TRUE)
            ELSE decision)

should_copy(rel_path, rules) == ShouldCopyFrom(rel_path, rules, 1, FALSE)

----------------------------------------------------------------------------
(* Inputs of the match engine harness. *)

PatChars == {"a", "*", "?", "/", "[", "]"}

NameChars == {"a", "b"}

\* relative file paths: non-empty segments of name characters joined by '/'
RelPaths ==
    {p \in SeqsUpTo(NameChars \cup {"/"}, MaxPathLen) :
        /\ Len(p) > 0
        /\ p[1] # "/" /\ p[Len(p)] # "/"
        /\ \A i \in 1..(Len(p) - 1) : ~(p[i] = "/" /\ p[i + 1] = "/")}

Rule(pattern, isExclude) == [pattern |-> pattern, isExclude |-> isExclude]

\* rules used in the longer rule lists
SampleRules ==
    {Rule(p, e) : p \in {<<"a", "/">>, <<"*", "b">>, <<"a", "/", "b">>},
                  e \in BOOLEAN}

MatchRuleLists ==
    {<<Rule(p, e)>> : p \in SeqsUpTo(PatChars, MaxPatLen), e \in BOOLEAN}
    \cup SeqsUpTo(SampleRules, MaxRules)

\* a harness that is not under check stays as it is put here
IdleWorker == from_path = <<>> /\ to_path = <<>> /\ osSep = "/"

IdleMatch ==
    /\ mPc = "idle" /\ mPath = <<>> /\ mRules = <<>>
    /\ mMatch = <<>> /\ mDecision = FALSE

IdleExpand == xPc = "idle" /\ xText = <<>> /\ xOut = <<>>

IdleParse ==
    /\ pPc = "idle" /\ pStatus = "missing" /\ pLines = <<>>
    /\ pResult = [raised |-> FALSE, rules |-> <<>>]

\* stop() has not been called
NotStopped == [pc |-> "none", attempts |-> 0, dst |-> <<>>]

IdleRun ==
    /\ pc = "idle" /\ is_running = TRUE /\ srcExists = FALSE
    /\ srcTree = {} /\ dstInit = <<>> /\ dstTree = <<>>
    /\ cfgStatus = "missing" /\ cfgLines = <<>>
    /\ jobRules = <<>> /\ files_to_copy = <<>> /\ copied_count = 0
    /\ attempts = <<>> /\ progress = <<>> /\ finished = <<>>
    /\ stop_at = NotStopped

InitMatch ==
    /\ mPc = "call"
    /\ mPath \in RelPaths
    /\ mRules \in MatchRuleLists
    /\ mMatch = <<>>
    /\ mDecision = FALSE
    /\ IdleWorker /\ IdleExpand /\ IdleParse /\ IdleRun

\* worker.should_copy(mPath, mRules)
ShouldCopyCall ==
    /\ mPc = "call"
    /\ mPc' = "ret"
    /\ mMatch' = [i \in 1..Len(mRules) |-> RuleMatch(mRules[i].pattern, mPath)]
    /\ mDecision' = should_copy(mPath, mRules)
    /\ UNCHANGED <<mPath, mRules, workerVars, expandVars, parseVars, runVars>>

NextMatch == ShouldCopyCall

SpecMatch == InitMatch /\ [][NextMatch]_vars

----------------------------------------------------------------------------
(* Claims about the match engine (checked under SpecMatch). *)

\* indices of the rules whose glob test accepts mPath, stated on the patterns
MatchingIdx == {i \in 1..Len(mRules) : mMatch[i]}

\* all but the last rule
FrontRules == Slice(mRules, 1, Len(mRules) - 1)

\* 'saves/' matches 'saves/level.dat' and does not match 'mods/a.jar'
SavesExamples ==
    /\ RuleMatch(<<"s", "a", "v", "e", "s", "/">>,
                 <<"s", "a", "v", "e", "s", "/", "l", "e", "v", "e", "l",
                   ".", "d", "a", "t">>)
    /\ ~RuleMatch(<<"s", "a", "v", "e", "s", "/">>,
                  <<"m", "o", "d", "s", "/", "a", ".", "j", "a", "r">>)

\* '*IAS*/' matches 'AutoIAS/config.txt' and 'MyIASStuff/sub/a.txt', and
\* does not match 'Other/mods.txt'
IASExamples ==
    /\ RuleMatch(<<"*", "I", "A", "S", "*", "/">>,
                 <<"A", "u", "t", "o", "I", "A", "S", "/", "c", "o", "n", "f",
                   "i", "g", ".", "t", "x", "t">>)
    /\ RuleMatch(<<"*", "I", "A", "S", "*", "/">>,
                 <<"M", "y", "I", "A", "S", "S", "t", "u", "f", "f", "/", "s",
                   "u", "b", "/", "a", ".", "t", "x", "t">>)
    /\ ~RuleMatch(<<"*", "I", "A", "S", "*", "/">>,
                  <<"O", "t", "h", "e", "r", "/", "m", "o", "d", "s", ".", "t",
                    "x", "t">>)

\* C1: should_copy is FALSE when no rule matches (so for the empty list) and
\* otherwise is TRUE exactly when the last matching rule in list order is an
\* include rule; and should_copy(R, L + [r]) is (not r.isExclude) when r
\* matches R and should_copy(R, L) when it does not.
C1_LastMatchWins ==
    mPc = "ret" =>
        /\ mDecision = (IF MatchingIdx = {} THEN FALSE
                        ELSE ~mRules[SetMax(MatchingIdx)].isExclude)
        /\ Len(mRules) > 0 =>
              mDecision = (IF mMatch[Len(mRules)]
                           THEN ~mRules[Len(mRules)].isExclude
                           ELSE ShouldCopyFrom(mPath, FrontRules, 1, FALSE))

\* a call where an earlier matching rule of the other polarity is overridden
\* by a later matching rule, with a non-matching rule in the list
C1_Witness ==
    /\ mPc = "ret"
    /\ \E i, j \in MatchingIdx :
          /\ i < j /\ j = SetMax(MatchingIdx)
          /\ mRules[i].isExclude # mRules[j].isExclude
          /\ mDecision = ~mRules[j].isExclude
    /\ \E k \in 1..Len(mRules) : ~mMatch[k]

\* P with exactly one trailing '/' removed
StripOneSlash(P) == SubSeq(P, 1, Len(P) - 1)

\* whether C is P with all of its trailing '/' removed
IsAllSlashesStripped(C, P) ==
    /\ Len(C) <= Len(P)
    /\ C = SubSeq(P, 1, Len(C))
    /\ \A i \in (Len(C) + 1)..Len(P) : P[i] = "/"
    /\ ~EndsWithChar(C, "/")

\* the glob test of a directory rule whose cleaned pattern is C
DirGlob(R, C) == fnmatch(R, C) \/ fnmatch(R, C \o <<"/", "*">>)

\* C3 as stated: for a pattern P ending in '/' (also in more than one), the
\* rule matches R iff R glob-matches C or C + '/*', C being P less its one
\* trailing '/'; for any other pattern, iff R glob-matches P.
C3_AsStated ==
    mPc = "ret" =>
        \A i \in 1..Len(mRules) :
            LET P == mRules[i].pattern
            IN  mMatch[i] = (IF EndsWithChar(P, "/")
                             THEN DirGlob(mPath, StripOneSlash(P))
                             ELSE fnmatch(mPath, P))

\* C3 amended: C is P with all of its trailing '/' removed.  In particular
\* 'saves/' matches 'saves/level.dat' and not 'mods/a.jar'.
C3_AllSlashesStripped ==
    /\ mPc = "ret" =>
        \A i \in 1..Len(mRules) :
            LET P == mRules[i].pattern
            IN  IF EndsWithChar(P, "/")
                THEN \A C \in {SubSeq(P, 1, n) : n \in 0..Len(P)} :
                        IsAllSlashesStripped(C, P)
                            => (mMatch[i] = DirGlob(mPath, C))
                ELSE mMatch[i] = fnmatch(mPath, P)
    /\ SavesExamples

\* a pattern ending in '//' that matches a file beneath the directory
C3_Witness ==
    /\ mPc = "ret"
    /\ Len(mRules) = 1
    /\ mRules[1].pattern = <<"a", "/", "/">>
    /\ mPath = <<"a", "/", "b">>
    /\ mMatch[1]

\* positions of the separators of R that have something after them
Cuts(R) == {q \in 1..(Len(R) - 1) : R[q] = "/"}

\* C4: a directory rule C + '/' matches every R = D + '/' + rest where D
\* glob-matches C and rest is non-empty, of any depth.
C4_MatchesBeneath ==
    /\ mPc = "ret" =>
        \A i \in 1..Len(mRules) :
            LET P == mRules[i].pattern
            IN  EndsWithChar(P, "/") =>
                    \A q \in Cuts(mPath) :
                        fnmatch(SubSeq(mPath, 1, q - 1), StripOneSlash(P))
                            => mMatch[i]
    /\ IASExamples

\* a wildcard directory rule matching a file two levels beneath the directory
C4_Witness ==
    /\ mPc = "ret"
    /\ Len(mRules) = 1
    /\ mRules[1].pattern = <<"*", "a", "/">>
    /\ mPath = <<"a", "/", "b", "/", "a">>
    /\ mMatch[1]

\* C5: a directory rule C + '/' matches only the directory entry and what
\* lies beneath it: every matched R either has no '/' and glob-matches C, or
\* has a proper directory prefix (R cut at one of its '/') that glob-matches
\* C.  (C is read here as the pattern less all trailing '/'.)
C5_OnlyBeneath ==
    mPc = "ret" =>
        \A i \in 1..Len(mRules) :
            LET P == mRules[i].pattern
                C == RStripChar(P, "/")
            IN  (EndsWithChar(P, "/") /\ mMatch[i]) =>
                    \/ (Cuts(mPath) = {} /\ fnmatch(mPath, C))
                    \/ \E q \in Cuts(mPath) :
                          fnmatch(SubSeq(mPath, 1, q - 1), C)

----------------------------------------------------------------------------
(* The placeholder expander: _build_placeholder_context and                *)
(* _expand_placeholders.  In a text, a key word such as "OLD_VERSION_NAME" *)
(* is one element standing for its run of characters; the other elements   *)
(* are single characters.                                                  *)

KnownKeys ==
    {"OLD_VERSION_NAME", "NEW_VERSION_NAME", "OLD_VERSION_PATH", "NEW_VERSION_PATH"}

\* the separators os.path splits at: '/' on posix, '/' and '\' on nt
Separators(sep) == IF sep = "\\" THEN {"/", "\\"} ELSE {"/"}

\* os.path.basename(os.path.normpath(path)): the last non-empty component
\* ('.' and '..' components and drive letters are outside the path alphabet)
BaseNameOfNormPath(path, sep) ==
    LET comp == {i \in 1..Len(path) : path[i] \notin Separators(sep)}
    IN  IF comp = {} THEN <<>>
        ELSE LET e    == SetMax(comp)
                 seps == {i \in 1..e : path[i] \in Separators(sep)}
                 b    == IF seps = {} THEN 1 ELSE SetMax(seps) + 1
             IN  SubSeq(path, b, e)

\* self._placeholder_context, for the root paths src and dst (a missing root
\* is the empty text)
build_placeholder_context(src, dst, sep) ==
    [key \in KnownKeys |->
        CASE key = "OLD_VERSION_NAME" ->
                IF src # <<>> THEN BaseNameOfNormPath(src, sep) ELSE <<>>
          [] key = "NEW_VERSION_NAME" ->
                IF dst # <<>> THEN BaseNameOfNormPath(dst, sep) ELSE <<>>
          [] key = "OLD_VERSION_PATH" -> src
          [] key = "NEW_VERSION_PATH" -> dst]

\* _PLACEHOLDER_RE = \$\{([^}]+)\} tried at text[i]: the index of the '}' that
\* ends the match, or 0 when there is no match starting at i
PlaceholderMatchEnd(text, i) ==
    IF text[i] = "$" /\ i + 1 <= Len(text) /\ text[i + 1] = "{"
    THEN LET cl == {j \in (i + 2)..Len(text) : text[j] = "}"}
         IN  IF cl # {} /\ SetMin(cl) >= i + 3 THEN SetMin(cl) ELSE 0
    ELSE 0

\* repl(match) for the match text[i..e]
Repl(text, i, e, context) ==
    LET key == SubSeq(text, i + 2, e - 1)
    IN  IF Len(key) = 1 /\ key[1] \in DOMAIN context
        THEN context[key[1]]
        ELSE SubSeq(text, i, e)

\* _PLACEHOLDER_RE.sub(repl, text) from text[i] on: non-overlapping matches,
\* leftmost first, the replacement is not scanned again
RECURSIVE SubFrom(_, _, _)
SubFrom(text, i, context) ==
    IF i > Len(text) THEN <<>>
    ELSE LET e == PlaceholderMatchEnd(text, i)
         IN  IF e > 0
             THEN Repl(text, i, e, context) \o SubFrom(text, e + 1, context)
             ELSE <<text[i]>> \o SubFrom(text, i + 1, context)

expand_placeholders(text, context) == SubFrom(text, 1, context)

\* the context of the worker under check
placeholder_context == build_placeholder_context(from_path, to_path, osSep)

----------------------------------------------------------------------------
(* Inputs of the expander harness. *)

TextChars == {"$", "{", "}", "OLD_VERSION_NAME", "x"}

Token(key) == <<"$", "{", key, "}">>

\* texts of the tests: every known key, an unknown key, a misspelled key
SampleTexts ==
    {Token(k) : k \in KnownKeys}
    \cup {<<"l", "/">> \o Token(k) \o <<".", "l">> :
            k \in {"OLD_VERSION_NAME", "NEW_VERSION_NAME", "OLD_VERION_NAME",
                   "UNKNOWN_PLACEHOLDER"}}

ExpandTexts == SeqsUpTo(TextChars, MaxTextLen) \cup SampleTexts

\* root paths the worker is built with
FromPaths == {<<>>, <<"v", "/", "o">>, <<"v", "\\", "o">>}

ToPaths == {<<"n">>, <<"v", "\\", "n">>}

InitWorker ==
    /\ from_path \in FromPaths
    /\ to_path \in ToPaths
    /\ osSep \in {"/", "\\"}

InitExpand ==
    /\ InitWorker
    /\ xPc = "call"
    /\ xText \in ExpandTexts
    /\ xOut = <<>>
    /\ IdleMatch /\ IdleParse /\ IdleRun

\* worker._expand_placeholders(xText)
ExpandCall ==
    /\ xPc = "call"
    /\ xPc' = "ret"
    /\ xOut' = expand_placeholders(xText, placeholder_context)
    /\ UNCHANGED <<xText, workerVars, matchVars, parseVars, runVars>>

NextExpand == ExpandCall

SpecExpand == InitExpand /\ [][NextExpand]_vars

----------------------------------------------------------------------------
(* Claims about the placeholder expander (checked under SpecExpand). *)

\* the text with every token ${KEY}, KEY a context key, replaced by the value
\* of KEY and everything else kept
RECURSIVE EveryKnownTokenReplaced(_, _, _)
EveryKnownTokenReplaced(text, i, context) ==
    IF i > Len(text) THEN <<>>
    ELSE IF /\ i + 3 <= Len(text)
            /\ text[i + 2] \in KnownKeys
            /\ SubSeq(text, i, i + 3) = Token(text[i + 2])
         THEN context[text[i + 2]]
                \o EveryKnownTokenReplaced(text, i + 4, context)
         ELSE <<text[i]>> \o EveryKnownTokenReplaced(text, i + 1, context)

\* C6: _expand_placeholders replaces every occurrence of a token ${KEY} with a
\* known KEY by the context value and leaves all other text unchanged, for
\* every input text, also where a '${' precedes a known token without being
\* closed before it.
C6_EveryKnownTokenReplaced ==
    xPc = "ret" =>
        xOut = EveryKnownTokenReplaced(xText, 1, placeholder_context)

----------------------------------------------------------------------------
(* The rule parser: MigrationWorker.parse_rules.  A file is the sequence   *)
(* of its lines, each without its line end (a line end is whitespace at    *)
(* the end of the line, which strip() removes).  A byte-order mark is the  *)
(* element "BOM".                                                          *)

\* str.isspace() / what str.strip() removes, among the characters of a line
WhiteSpace == {" ", "\t", "\n", "\r"}

\* str.lstrip()
LStrip(s) ==
    LET keep == {i \in 1..Len(s) : s[i] \notin WhiteSpace}
    IN  IF keep = {} THEN <<>> ELSE SubSeq(s, SetMin(keep), Len(s))

\* str.strip()
Strip(s) ==
    LET keep == {i \in 1..Len(s) : s[i] \notin WhiteSpace}
    IN  IF keep = {} THEN <<>> ELSE SubSeq(s, SetMin(keep), SetMax(keep))

\* str.replace(old, new) for single characters
Replace(s, old, new) == [i \in 1..Len(s) |-> IF s[i] = old THEN new ELSE s[i]]

\* encoding='utf-8-sig': a byte-order mark at the very start of the file is
\* dropped
DecodeUtf8Sig(lines) ==
    IF Len(lines) > 0 /\ StartsWithChar(lines[1], "BOM")
    THEN <<Tail(lines[1])>> \o Tail(lines)
    ELSE lines

\* mutant: any '#' after the first character starts a comment
StripInlineComment_AnyHash(line) ==
    LET hit == {i \in 2..Len(line) : line[i] = "#"}
    IN  IF hit = {} THEN line ELSE Slice(line, 1, SetMin(hit) - 1)

\* the end-of-line comment loop (lines 130-133): cut at the first '#' that
\* is not the first character and follows whitespace, dropping line[i-1] too
StripInlineComment(line) ==
    LET hit == {i \in 2..Len(line) : line[i] = "#" /\ line[i - 1] \in WhiteSpace}
    IN  IF hit = {} THEN line ELSE Slice(line, 1, SetMin(hit) - 2)

\* mutant: the separators are normalised before the placeholders are expanded
ParseLine_NormalizeFirst(line, context) ==
    IF Strip(line) = <<>> \/ StartsWithChar(LStrip(line), "#") THEN <<>>
    ELSE LET stripped == Strip(StripInlineComment(line))
         IN  IF stripped = <<>> THEN <<>>
             ELSE LET is_exclude == StartsWithChar(stripped, "!")
                      pattern    == IF is_exclude THEN Tail(stripped) ELSE stripped
                      normalized == Replace(pattern, "\\", "/")
                  IN  <<Rule(expand_placeholders(normalized, context), is_exclude)>>

\* the rules one line adds (none or one): the body of the loop, lines 125-150
ParseLine(line, context) ==
    IF Strip(line) = <<>> \/ StartsWithChar(LStrip(line), "#") THEN <<>>
    ELSE LET stripped == Strip(StripInlineComment(line))
         IN  IF stripped = <<>> THEN <<>>
             ELSE LET is_exclude == StartsWithChar(stripped, "!")
                      pattern    == IF is_exclude THEN Tail(stripped) ELSE stripped
                      expanded   == expand_placeholders(pattern, context)
                  IN  <<Rule(Replace(expanded, "\\", "/"), is_exclude)>>

\* the loop over the lines of the file, from line i on
RECURSIVE ParseLinesFrom(_, _, _)
ParseLinesFrom(lines, i, context) ==
    IF i > Len(lines) THEN <<>>
    ELSE ParseLine(lines[i], context) \o ParseLinesFrom(lines, i + 1, context)

\* mutant: no os.path.exists test before the file is opened
parse_rules_NoExistsTest(status, lines, context) ==
    IF status # "readable" THEN [raised |-> TRUE, rules |-> <<>>]
    ELSE [raised |-> FALSE,
          rules |-> ParseLinesFrom(DecodeUtf8Sig(lines), 1, context)]

\* parse_rules(config_path) for a file of the given status and lines: a
\* missing file gives the empty list; open() or the decoder raising (a file
\* that is there but cannot be read as UTF-8 text) leaves the call, there is
\* no handler in parse_rules
parse_rules(status, lines, context) ==
    IF status = "missing" THEN [raised |-> FALSE, rules |-> <<>>]
    ELSE IF status = "unreadable" THEN [raised |-> TRUE, rules |-> <<>>]
    ELSE [raised |-> FALSE,
          rules |-> ParseLinesFrom(DecodeUtf8Sig(lines), 1, context)]

----------------------------------------------------------------------------
(* Inputs of the parser harness. *)

LineChars == {" ", "#", "!", "a", "\\"}

\* lines after those of the tests
SampleLines ==
    { <<"BOM", "#", " ", "c">>,
      <<" ", " ", "#", " ", "c">>,
      <<>>,
      <<"a", "/", " ", " ", "#", " ", "c">>,
      <<"!", "a", "/", "b", "/", " ", "#", " ", "c">>,
      <<"a", "\\", "b">>,
      <<"!", "b", "/", "*">>,
      <<"l", "/">> \o Token("OLD_VERSION_NAME") \o <<".", "l">>,
      Token("NEW_VERSION_PATH") \o <<"/">> }

ParseFiles ==
    {<<l>> : l \in SeqsUpTo(LineChars, MaxLineLen)}
    \cup SeqsUpTo(SampleLines, MaxLines)

InitParse ==
    /\ InitWorker
    /\ pPc = "call"
    /\ \/ pStatus = "readable" /\ pLines \in ParseFiles
       \/ pStatus \in {"missing", "unreadable"} /\ pLines = <<>>
    /\ pResult = [raised |-> FALSE, rules |-> <<>>]
    /\ IdleMatch /\ IdleExpand /\ IdleRun

\* worker.parse_rules(config_path)
ParseRulesCall ==
    /\ pPc = "call"
    /\ pPc' = "ret"
    /\ pResult' = parse_rules(pStatus, pLines, placeholder_context)
    /\ UNCHANGED <<pStatus, pLines, workerVars, matchVars, expandVars, runVars>>

NextParse == ParseRulesCall

SpecParse == InitParse /\ [][NextParse]_vars

----------------------------------------------------------------------------
(* Claims about the rule parser (checked under SpecParse). *)

\* the lines as the parser reads them
ReadLines == DecodeUtf8Sig(pLines)

IsBlank(line) == \A i \in 1..Len(line) : line[i] \in WhiteSpace

\* the first non-whitespace character of the line is '#'
IsFullLineComment(line) ==
    \E i \in 1..Len(line) :
        /\ line[i] = "#"
        /\ \A j \in 1..(i - 1) : line[j] \in WhiteSpace

\* i is the first '#' of the line that is immediately preceded by whitespace
IsFirstCommentHash(line, i) ==
    /\ i \in 2..Len(line) /\ line[i] = "#" /\ line[i - 1] \in WhiteSpace
    /\ \A j \in 2..(i - 1) : ~(line[j] = "#" /\ line[j - 1] \in WhiteSpace)

\* t is the line cut from the whitespace before its first comment '#' onward
\* (the whole line when it has no such '#'), without surrounding whitespace
IsRuleText(line, t) ==
    \E n \in 0..Len(line) :
        /\ \/ n = Len(line) /\ ~\E i \in 2..Len(line) : IsFirstCommentHash(line, i)
           \/ IsFirstCommentHash(line, n + 2)
        /\ \E b \in 1..(n + 1), e \in 0..n :
              /\ t = Slice(line, b, e)
              /\ \A j \in 1..(b - 1) : line[j] \in WhiteSpace
              /\ \A j \in (e + 1)..n : line[j] \in WhiteSpace
              /\ t # <<>> => (t[1] \notin WhiteSpace /\ t[Len(t)] \notin WhiteSpace)

\* the pattern text of a rule as stored: placeholders expanded, then '\' as '/'
Stored(t) == Replace(expand_placeholders(t, placeholder_context), "\\", "/")

\* whether line yields no rule / yields rule r
YieldsNothing(line) ==
    IsBlank(line) \/ IsFullLineComment(line) \/ IsRuleText(line, <<>>)

YieldsRule(line, r) ==
    /\ ~IsBlank(line) /\ ~IsFullLineComment(line)
    /\ \E n \in 1..Len(line), b \in 1..Len(line) :
          LET t == Slice(line, b, b + n - 1)
          IN  /\ b + n - 1 <= Len(line)
              /\ IsRuleText(line, t)
              /\ IF t[1] = "!"
                 THEN r = Rule(Stored(Tail(t)), TRUE)
                 ELSE r = Rule(Stored(t), FALSE)

\* the indices of the lines that yield a rule
RuleLines == {i \in 1..Len(ReadLines) : ~YieldsNothing(ReadLines[i])}

\* C7: parse_rules on a readable file returns, in file order, without
\* reordering or deduplication, exactly one rule per line that survives
\* comment stripping: blank lines and lines whose first non-whitespace
\* character is '#' yield nothing; the first '#' right after whitespace cuts
\* the line from that whitespace on; a line empty after that and trimming
\* yields nothing; a remaining line starting with '!' yields (rest, exclude),
\* any other (line, include); a '#' not after whitespace stays in the pattern.
\* (The pattern is stored with placeholders expanded and '\' turned to '/'.)
C7_OneRulePerSurvivingLine ==
    (pPc = "ret" /\ pStatus = "readable") =>
        /\ ~pResult.raised
        /\ Len(pResult.rules) = Cardinality(RuleLines)
        /\ \A i \in RuleLines :
              LET k == Cardinality({j \in RuleLines : j <= i})
              IN  YieldsRule(ReadLines[i], pResult.rules[k])

\* a file of two equal rule lines with an inline comment, giving the rule
\* twice, the second one from a line after it
C7_Witness ==
    /\ pPc = "ret" /\ pStatus = "readable"
    /\ Len(pResult.rules) = 2
    /\ pResult.rules[1] = pResult.rules[2]
    /\ \E i \in 1..Len(pLines) :
          \E j \in 2..Len(pLines[i]) : IsFirstCommentHash(pLines[i], j)

\* C8 as stated: parse_rules never raises, whatever the rule file (missing,
\* readable, or there but not readable as text), and a missing file gives
\* the empty list.
C8_NeverFails ==
    pPc = "ret" =>
        /\ ~pResult.raised
        /\ pStatus = "missing" => pResult.rules = <<>>

\* C8 amended: parse_rules returns a list without raising for a missing file
\* (the empty list) and for a readable file; for a file that is there but
\* cannot be read as text it raises.
C8_FailsOnlyOnUnreadable ==
    pPc = "ret" =>
        /\ pResult.raised = (pStatus = "unreadable")
        /\ pStatus = "missing" => pResult.rules = <<>>

\* a call on a file that is there but cannot be read has raised
C8_Witness ==
    /\ pPc = "ret" /\ pStatus = "unreadable" /\ pResult.raised

\* C18: no pattern of the list parse_rules returns holds a backslash,
\* whatever the rule file and the two root paths, also when the value put in
\* for a placeholder holds backslashes: the separators are normalised after
\* the placeholders are expanded.
C18_NoBackslashInPatterns ==
    pPc = "ret" =>
        \A i \in 1..Len(pResult.rules) :
            \A j \in 1..Len(pResult.rules[i].pattern) :
                pResult.rules[i].pattern[j] # "\\"

\* a worker whose destination root is written with a backslash has parsed a
\* line naming ${NEW_VERSION_PATH}: the rule holds the root with '/'
C18_Witness ==
    /\ pPc = "ret" /\ pStatus = "readable"
    /\ to_path = <<"v", "\\", "n">>
    /\ \E i \in 1..Len(pLines) : pLines[i] = Token("NEW_VERSION_PATH") \o <<"/">>
    /\ \E i \in 1..Len(pResult.rules) :
          pResult.rules[i].pattern = <<"v", "/", "n", "/">>

----------------------------------------------------------------------------
(* The tree scanner: MigrationWorker.scan_files.  A file of the source     *)
(* tree is the sequence of the names on its way from the root; a name is   *)
(* one character that is no separator.  Directories are those the files    *)
(* lie in.                                                                 *)

\* the order in which a directory lists its entries
NameOrder == <<"a", "b">>

\* the names joined by sep
RECURSIVE JoinWith(_, _)
JoinWith(names, sep) ==
    IF Len(names) = 0 THEN <<>>
    ELSE IF Len(names) = 1 THEN <<names[1]>>
    ELSE <<names[1], sep>> \o JoinWith(Tail(names), sep)

\* the names of a relative path written with '/'
RECURSIVE SplitPath(_)
SplitPath(rel_path) ==
    LET seps == {i \in 1..Len(rel_path) : rel_path[i] = "/"}
    IN  IF seps = {} THEN <<rel_path[1]>>
        ELSE <<rel_path[1]>> \o SplitPath(Slice(rel_path, SetMin(seps) + 1, Len(rel_path)))

\* whether dir is a directory of the tree (some file lies beneath it)
IsDirIn(tree, dir) ==
    \E f \in tree : Len(f) > Len(dir) /\ SubSeq(f, 1, Len(dir)) = dir

\* os.path.relpath(dirpath, root_dir) for the directory dir under the root
RelPathOfDir(dir, sep) == IF dir = <<>> THEN <<".">> ELSE JoinWith(dir, sep)

\* os.path.join(a, b) for a relative b
OsPathJoin(a, b, sep) ==
    IF a = <<>> THEN b
    ELSE IF a[Len(a)] \in Separators(sep) THEN a \o b
    ELSE a \o <<sep>> \o b

\* mutant: the joined path is not normalised to '/'
RelFilePath_NoReplace(dir, filename, sep) ==
    LET rel0    == RelPathOfDir(dir, sep)
        rel_dir == Replace(IF rel0 = <<".">> THEN <<>> ELSE rel0, "\\", "/")
    IN  OsPathJoin(rel_dir, <<filename>>, sep)

\* rel_file_path for the file `filename` of directory dir (lines 162-170)
RelFilePath(dir, filename, sep) ==
    LET rel0    == RelPathOfDir(dir, sep)
        rel_dir == Replace(IF rel0 = <<".">> THEN <<>> ELSE rel0, "\\", "/")
    IN  Replace(OsPathJoin(rel_dir, <<filename>>, sep), "\\", "/")

\* the loop over the filenames of one directory, from the k-th name on
RECURSIVE ScanFilenames(_, _, _, _, _)
ScanFilenames(tree, dir, k, rule_list, sep) ==
    IF k > Len(NameOrder) THEN <<>>
    ELSE LET rel_file_path == RelFilePath(dir, NameOrder[k], sep)
         IN  (IF Append(dir, NameOrder[k]) \in tree
                 /\ should_copy(rel_file_path, rule_list)
              THEN <<rel_file_path>> ELSE <<>>)
             \o ScanFilenames(tree, dir, k + 1, rule_list, sep)

\* os.walk from directory dir, top down: with k = 0 the directory itself
\* (its files, then its subdirectories), with k > 0 its subdirectories from
\* the k-th name on
RECURSIVE Walk(_, _, _, _, _)
Walk(tree, dir, k, rule_list, sep) ==
    IF k = 0 THEN
        ScanFilenames(tree, dir, 1, rule_list, sep) \o Walk(tree, dir, 1, rule_list, sep)
    ELSE IF k > Len(NameOrder) THEN <<>>
    ELSE (IF IsDirIn(tree, Append(dir, NameOrder[k]))
          THEN Walk(tree, Append(dir, NameOrder[k]), 0, rule_list, sep)
          ELSE <<>>)
         \o Walk(tree, dir, k + 1, rule_list, sep)

scan_files(tree, rule_list, sep) == Walk(tree, <<>>, 0, rule_list, sep)

----------------------------------------------------------------------------
(* The job: MigrationWorker.run and MigrationWorker.stop. *)

\* the content of the source file at rel_path / of a file the destination
\* already holds at rel_path / of a file a failed copy left behind
SrcContent(rel_path) == [origin |-> "src", path |-> rel_path]

DstContent(rel_path) == [origin |-> "dst", path |-> rel_path]

PartialContent(rel_path) == [origin |-> "partial", path |-> rel_path]

\* the tree with the file at rel_path holding content
WithFile(tree, rel_path, content) ==
    [p \in DOMAIN tree \cup {rel_path} |-> IF p = rel_path THEN content ELSE tree[p]]

\* rel_path is a directory of the tree: some file of the tree lies beneath it
IsDirAt(tree, rel_path) ==
    \E q \in DOMAIN tree :
        /\ Len(q) > Len(rel_path) + 1
        /\ SubSeq(q, 1, Len(rel_path) + 1) = rel_path \o <<"/">>

\* a directory on the way to rel_path is a file of the tree: os.makedirs
\* raises FileExistsError or NotADirectoryError (line 91)
ParentIsFile(tree, rel_path) ==
    \E n \in 1..(Len(rel_path) - 1) :
        rel_path[n + 1] = "/" /\ SubSeq(rel_path, 1, n) \in DOMAIN tree

\* os.path.basename
BaseName(rel_path) ==
    LET seps == {i \in 1..Len(rel_path) : rel_path[i] = "/"}
    IN  IF seps = {} THEN rel_path
        ELSE SubSeq(rel_path, SetMax(seps) + 1, Len(rel_path))

\* where shutil.copy2(src_file, dst_file) writes: a dst_file that is a
\* directory receives the file under the source's base name (line 94)
CopyTarget(tree, rel_path) ==
    IF IsDirAt(tree, rel_path)
    THEN rel_path \o <<"/">> \o BaseName(rel_path)
    ELSE rel_path

\* the layout of the destination makes makedirs or copy2 raise
CopyRaises(tree, rel_path) ==
    \/ ParentIsFile(tree, rel_path)
    \/ IsDirAt(tree, CopyTarget(tree, rel_path))

\* os.makedirs(dirname(dst_file), exist_ok=True) and shutil.copy2(src_file,
\* dst_file) having succeeded (lines 86-94)
CopiedTo(tree, rel_path) ==
    WithFile(tree, CopyTarget(tree, rel_path), SrcContent(rel_path))

\* int((copied_count / total_files) * 100) in IEEE-754 double arithmetic:
\* the pairs with total_files <= 100 where the product falls just below the
\* exact integer quotient
FloatBelow == {<<29, 50>>, <<29, 100>>, <<57, 100>>, <<58, 100>>}

Percent(count, total) ==
    IF <<count, total>> \in FloatBelow
    THEN (count * 100) \div total - 1
    ELSE (count * 100) \div total

ProgressEvent(percent, message, rel_path) ==
    [percent |-> percent, message |-> message, path |-> rel_path]

FinishedEvent(success, message, detail) ==
    [success |-> success, message |-> message, detail |-> detail]

\* what the job leaves alone: the harnesses and the worker's fields
otherVars == <<workerVars, matchVars, expandVars, parseVars>>

\* mutant: the source root is not tested
CheckSource_NoTest ==
    /\ pc = "start"
    /\ pc' = "parse"
    /\ UNCHANGED <<is_running, stop_at, srcExists, srcTree, dstInit, dstTree, cfgStatus,
                   cfgLines, jobRules, files_to_copy, copied_count, attempts,
                   progress, finished>>
    /\ UNCHANGED otherVars

\* lines 57-62 and 105-107: the source root is tested; a missing root raises
\* FileNotFoundError, which the handler turns into the failure result
CheckSource ==
    /\ pc = "start"
    /\ IF srcExists
       THEN pc' = "parse" /\ UNCHANGED finished
       ELSE /\ pc' = "done"
            /\ finished' = Append(finished,
                  FinishedEvent(FALSE, "Source path does not exist", from_path))
    /\ UNCHANGED <<is_running, stop_at, srcExists, srcTree, dstInit, dstTree, cfgStatus,
                   cfgLines, jobRules, files_to_copy, copied_count, attempts,
                   progress>>
    /\ UNCHANGED otherVars

\* lines 64-66 and 105-107: the rules are parsed; an exception leaving
\* parse_rules is turned into the failure result
ParseRules ==
    /\ pc = "parse"
    /\ LET r == parse_rules(cfgStatus, cfgLines, placeholder_context)
       IN  IF r.raised
           THEN /\ pc' = "done"
                /\ finished' = Append(finished,
                      FinishedEvent(FALSE, "rule file cannot be read", <<>>))
                /\ UNCHANGED jobRules
           ELSE /\ pc' = "emit_scan"
                /\ jobRules' = r.rules
                /\ UNCHANGED finished
    /\ UNCHANGED <<is_running, stop_at, srcExists, srcTree, dstInit, dstTree, cfgStatus,
                   cfgLines, files_to_copy, copied_count, attempts, progress>>
    /\ UNCHANGED otherVars

\* line 71
EmitScanning ==
    /\ pc = "emit_scan"
    /\ pc' = "scan"
    /\ progress' = Append(progress, ProgressEvent(0, "scanning", <<>>))
    /\ UNCHANGED <<is_running, stop_at, srcExists, srcTree, dstInit, dstTree, cfgStatus,
                   cfgLines, jobRules, files_to_copy, copied_count, attempts,
                   finished>>
    /\ UNCHANGED otherVars

\* mutant: no test for an empty selection, the copy phase is entered
ScanFiles_NoZeroTest ==
    /\ pc = "scan"
    /\ files_to_copy' = scan_files(srcTree, jobRules, osSep)
    /\ pc' = "loop"
    /\ copied_count' = 0
    /\ UNCHANGED <<is_running, stop_at, srcExists, srcTree, dstInit, dstTree,
                   cfgStatus, cfgLines, jobRules, attempts, progress, finished>>
    /\ UNCHANGED otherVars

\* mutant: the nothing-to-migrate result is emitted without the return
ScanFiles_NoReturn ==
    /\ pc = "scan"
    /\ files_to_copy' = scan_files(srcTree, jobRules, osSep)
    /\ IF Len(files_to_copy') = 0
       THEN finished' = Append(finished,
                FinishedEvent(TRUE, "nothing to migrate", <<>>))
       ELSE UNCHANGED finished
    /\ pc' = "loop"
    /\ copied_count' = 0
    /\ UNCHANGED <<is_running, stop_at, srcExists, srcTree, dstInit, dstTree,
                   cfgStatus, cfgLines, jobRules, attempts, progress>>
    /\ UNCHANGED otherVars

\* mutant: the scan reads the running flag and selects nothing once cleared
ScanFiles_Cancellable ==
    /\ pc = "scan"
    /\ files_to_copy' = IF is_running
                        THEN scan_files(srcTree, jobRules, osSep)
                        ELSE <<>>
    /\ IF Len(files_to_copy') = 0
       THEN /\ pc' = "done"
            /\ finished' = Append(finished,
                  FinishedEvent(TRUE, "nothing to migrate", <<>>))
       ELSE pc' = "loop" /\ UNCHANGED finished
    /\ copied_count' = 0
    /\ UNCHANGED <<is_running, stop_at, srcExists, srcTree, dstInit, dstTree,
                   cfgStatus, cfgLines, jobRules, attempts, progress>>
    /\ UNCHANGED otherVars

\* lines 72-81: the scan; with no file selected the job ends with the
\* nothing-to-migrate success result
ScanFiles ==
    /\ pc = "scan"
    /\ files_to_copy' = scan_files(srcTree, jobRules, osSep)
    /\ IF Len(files_to_copy') = 0
       THEN /\ pc' = "done"
            /\ finished' = Append(finished,
                  FinishedEvent(TRUE, "nothing to migrate", <<>>))
       ELSE pc' = "loop" /\ UNCHANGED finished
    /\ copied_count' = 0
    /\ UNCHANGED <<is_running, stop_at, srcExists, srcTree, dstInit, dstTree, cfgStatus,
                   cfgLines, jobRules, attempts, progress>>
    /\ UNCHANGED otherVars

\* mutant: the running flag is not read, the loop ends with the list
LoopTop_NoFlagTest ==
    /\ pc = "loop"
    /\ IF copied_count >= Len(files_to_copy)
       THEN pc' = "finish"
       ELSE pc' = "copy"
    /\ UNCHANGED <<is_running, stop_at, srcExists, srcTree, dstInit, dstTree,
                   cfgStatus, cfgLines, jobRules, files_to_copy, copied_count,
                   attempts, progress, finished>>
    /\ UNCHANGED otherVars

\* lines 82-84: the top of an iteration: the loop ends when the list is
\* used up, or breaks when the running flag is found cleared
LoopTop ==
    /\ pc = "loop"
    /\ IF copied_count >= Len(files_to_copy) \/ ~is_running
       THEN pc' = "finish"
       ELSE pc' = "copy"
    /\ UNCHANGED <<is_running, stop_at, srcExists, srcTree, dstInit, dstTree, cfgStatus,
                   cfgLines, jobRules, files_to_copy, copied_count, attempts,
                   progress, finished>>
    /\ UNCHANGED otherVars

\* mutant: no handler around makedirs and copy2, a failed copy ends the job
\* with the failure result
CopyFile_AbortOnError ==
    /\ pc = "copy"
    /\ LET rel_path == files_to_copy[copied_count + 1]
       IN  \/ /\ ~CopyRaises(dstTree, rel_path)
              /\ dstTree' = CopiedTo(dstTree, rel_path)
              /\ attempts' = Append(attempts, [path |-> rel_path, ok |-> TRUE])
              /\ copied_count' = copied_count + 1
              /\ pc' = "emit_progress"
              /\ UNCHANGED finished
           \/ /\ dstTree' = dstTree
              /\ attempts' = Append(attempts, [path |-> rel_path, ok |-> FALSE])
              /\ pc' = "done"
              /\ finished' = Append(finished,
                    FinishedEvent(FALSE, "copy failed", rel_path))
              /\ UNCHANGED copied_count
    /\ UNCHANGED <<is_running, stop_at, srcExists, srcTree, dstInit, cfgStatus,
                   cfgLines, jobRules, files_to_copy, progress>>
    /\ UNCHANGED otherVars

\* lines 86-99: one copy attempt.  It succeeds, or makedirs or copy2 raises
\* (the handler at line 96 logs it), leaving the destination as it was or
\* with a file that is not the source's; then copied_count is incremented.
\* A destination layout that makes them raise leaves only the failures.
CopyFile ==
    /\ pc = "copy"
    /\ LET rel_path == files_to_copy[copied_count + 1]
       IN  \/ /\ ~CopyRaises(dstTree, rel_path)
              /\ dstTree' = CopiedTo(dstTree, rel_path)
              /\ attempts' = Append(attempts, [path |-> rel_path, ok |-> TRUE])
           \/ /\ dstTree' = dstTree
              /\ attempts' = Append(attempts, [path |-> rel_path, ok |-> FALSE])
           \/ /\ ~CopyRaises(dstTree, rel_path)
              /\ dstTree' = WithFile(dstTree, CopyTarget(dstTree, rel_path),
                                     PartialContent(rel_path))
              /\ attempts' = Append(attempts, [path |-> rel_path, ok |-> FALSE])
    /\ copied_count' = copied_count + 1
    /\ pc' = "emit_progress"
    /\ UNCHANGED <<is_running, stop_at, srcExists, srcTree, dstInit, cfgStatus, cfgLines,
                   jobRules, files_to_copy, progress, finished>>
    /\ UNCHANGED otherVars

\* mutant: no progress event for a file whose copy failed
EmitProgress_SkipFailed ==
    /\ pc = "emit_progress"
    /\ progress' =
          IF attempts # <<>> /\ ~attempts[Len(attempts)].ok
          THEN progress
          ELSE Append(progress,
                  ProgressEvent(Percent(copied_count, Len(files_to_copy)),
                                "migrating", files_to_copy[copied_count]))
    /\ pc' = "loop"
    /\ UNCHANGED <<is_running, stop_at, srcExists, srcTree, dstInit, dstTree,
                   cfgStatus, cfgLines, jobRules, files_to_copy, copied_count,
                   attempts, finished>>
    /\ UNCHANGED otherVars

\* lines 100-101
EmitProgress ==
    /\ pc = "emit_progress"
    /\ progress' = Append(progress,
          ProgressEvent(Percent(copied_count, Len(files_to_copy)), "migrating",
                        files_to_copy[copied_count]))
    /\ pc' = "loop"
    /\ UNCHANGED <<is_running, stop_at, srcExists, srcTree, dstInit, dstTree, cfgStatus,
                   cfgLines, jobRules, files_to_copy, copied_count, attempts,
                   finished>>
    /\ UNCHANGED otherVars

\* mutant: the job reports failure when a copy attempt failed
Finish_FailureAfterErrors ==
    /\ pc = "finish"
    /\ finished' = Append(finished,
          IF \E i \in 1..Len(attempts) : ~attempts[i].ok
          THEN FinishedEvent(FALSE, "some files failed", <<>>)
          ELSE FinishedEvent(TRUE, "migration succeeded", <<>>))
    /\ pc' = "done"
    /\ UNCHANGED <<is_running, stop_at, srcExists, srcTree, dstInit, dstTree,
                   cfgStatus, cfgLines, jobRules, files_to_copy, copied_count,
                   attempts, progress>>
    /\ UNCHANGED otherVars

\* line 103
Finish ==
    /\ pc = "finish"
    /\ finished' = Append(finished, FinishedEvent(TRUE, "migration succeeded", <<>>))
    /\ pc' = "done"
    /\ UNCHANGED <<is_running, stop_at, srcExists, srcTree, dstInit, dstTree, cfgStatus,
                   cfgLines, jobRules, files_to_copy, copied_count, attempts,
                   progress>>
    /\ UNCHANGED otherVars

\* lines 109-110: stop(), called from the caller's thread at any moment
Stop ==
    /\ pc # "done"
    /\ is_running
    /\ is_running' = FALSE
    /\ stop_at' = [pc |-> pc, attempts |-> Len(attempts), dst |-> dstTree]
    /\ UNCHANGED <<pc, srcExists, srcTree, dstInit, dstTree, cfgStatus, cfgLines,
                   jobRules, files_to_copy, copied_count, attempts, progress,
                   finished>>
    /\ UNCHANGED otherVars

----------------------------------------------------------------------------
(* The jobs checked. *)

\* the files a tree may hold
TreePaths == {<<"a">>, <<"b">>, <<"a", "a">>, <<"a", "b">>, <<"b", "a">>}

\* no file of the tree is a directory of it
IsTree(files) == \A f \in files : ~IsDirIn(files, f)

SrcTrees ==
    {t \in SUBSET TreePaths : IsTree(t) /\ Cardinality(t) <= MaxSrcFiles}

\* what the destination root holds before the job, keyed by relative path
DstTrees ==
    {[p \in {JoinWith(f, "/") : f \in t} |-> DstContent(p)] :
        t \in {u \in SUBSET TreePaths :
                  IsTree(u) /\ Cardinality(u) <= MaxDstFiles}}

\* the rule files of the jobs
RuleFiles ==
    { << <<"a", "/">>, <<"!", "a", "/", "b">> >>,
      << <<"*">> >>,
      << <<"!", "*">>, <<"b", " ", "#", " ", "c">>, <<"*", "/", "a">> >>,
      << Token("OLD_VERSION_NAME") \o <<"/">> >>,
      << <<"a", "\\", "b">>, <<"#", "b">> >>,
      << >> }

Init ==
    /\ from_path = <<"v", "/", "a">>
    /\ to_path = <<"v", "/", "b">>
    /\ osSep \in {"/", "\\"}
    /\ pc = "start"
    /\ is_running = TRUE
    /\ \/ srcExists = TRUE /\ srcTree \in SrcTrees
       \/ srcExists = FALSE /\ srcTree = {}
    /\ dstInit \in DstTrees
    /\ dstTree = dstInit
    /\ \/ cfgStatus = "readable" /\ cfgLines \in RuleFiles
       \/ cfgStatus \in {"missing", "unreadable"} /\ cfgLines = <<>>
    /\ jobRules = <<>> /\ files_to_copy = <<>> /\ copied_count = 0
    /\ attempts = <<>> /\ progress = <<>> /\ finished = <<>>
    /\ stop_at = NotStopped
    /\ IdleMatch /\ IdleExpand /\ IdleParse

Next ==
    \/ CheckSource
    \/ ParseRules
    \/ EmitScanning
    \/ ScanFiles
    \/ LoopTop
    \/ CopyFile
    \/ EmitProgress
    \/ Finish
    \/ Stop

Spec == Init /\ [][Next]_vars

\* a step of run(): the worker thread goes on until run() returns
RunStep ==
    \/ CheckSource
    \/ ParseRules
    \/ EmitScanning
    \/ ScanFiles
    \/ LoopTop
    \/ CopyFile
    \/ EmitProgress
    \/ Finish

\* ENABLED <<RunStep>>_vars, stated on the position of run()
RunStepEnabled == pc # "done"

\* weak fairness of RunStep, written out on RunStepEnabled
FairSpec ==
    /\ Init /\ [][Next]_vars
    /\ ([]<>(~RunStepEnabled) \/ []<><<RunStep>>_vars)

----------------------------------------------------------------------------
(* Claims about the scanner and the job (checked under Spec). *)

\* run() is past the scan: files_to_copy holds its result
AfterScan ==
    \/ pc \in {"loop", "copy", "emit_progress", "finish"}
    \/ pc = "done" /\ finished # <<>> /\ finished[1].success

\* the source files as relative paths with '/'
SrcPaths == {JoinWith(f, "/") : f \in srcTree}

\* the directories of the source tree as relative paths with '/'
SrcDirs ==
    UNION {{JoinWith(SubSeq(f, 1, n), "/") : n \in 1..(Len(f) - 1)} : f \in srcTree}

\* the source files the rules accept
Accepted == {p \in SrcPaths : should_copy(p, jobRules)}

\* the paths the scan returned
Scanned == {files_to_copy[i] : i \in 1..Len(files_to_copy)}

\* C9: scan_files returns exactly the regular files under the root for which
\* should_copy is true, each as a path relative to the root with '/'
\* separators: no directory, no rejected file, every accepted file at any
\* depth (each once).
C9_ScanReturnsAccepted ==
    AfterScan =>
        /\ Scanned = Accepted
        /\ Scanned \cap SrcDirs = {}
        /\ Cardinality(Scanned) = Len(files_to_copy)
        /\ \A p \in Scanned : \A i \in 1..Len(p) : p[i] # "\\"

\* a scan on a platform whose separator is '\' that returned a file of a
\* subdirectory and a file of the root and left a file out
C9_Witness ==
    /\ AfterScan
    /\ osSep = "\\"
    /\ <<"a", "/", "a">> \in Scanned
    /\ <<"b">> \in Scanned
    /\ SrcPaths \ Scanned # {}

\* the job went through the whole copy phase with no stop() and no copy error
FullCleanRun ==
    /\ pc = "done"
    /\ is_running
    /\ copied_count > 0 /\ copied_count = Len(files_to_copy)
    /\ \A i \in 1..Len(attempts) : attempts[i].ok

\* C2: after a whole copy phase with no cancel request and no per-file copy
\* error, every selected path is a file of the destination with the content
\* of the source file (a file already there is overwritten), no source file
\* that should_copy rejects has been created there by the job, and the
\* terminal result is success.
C2_SelectedFilesCopied ==
    FullCleanRun =>
        /\ \A p \in Scanned :
              p \in DOMAIN dstTree /\ dstTree[p] = SrcContent(p)
        /\ \A p \in SrcPaths :
              (~should_copy(p, jobRules) /\ p \in DOMAIN dstTree) =>
                  (p \in DOMAIN dstInit /\ dstTree[p] = dstInit[p])
        /\ Len(finished) = 1 /\ finished[1].success

\* C10: with the source root missing when run() starts, the job ends with a
\* failure result whose message names the missing source path, and nothing
\* is created at the destination.
C10_MissingSourceFails ==
    ~srcExists =>
        /\ dstTree = dstInit
        /\ attempts = <<>>
        /\ pc = "done" =>
              finished = <<FinishedEvent(FALSE, "Source path does not exist",
                                         from_path)>>

\* a job with a missing source root and a readable rule file has ended
C10_Witness ==
    /\ pc = "done" /\ ~srcExists
    /\ cfgStatus = "readable" /\ cfgLines # <<>>
    /\ dstInit # <<>>
    /\ Len(finished) = 1 /\ ~finished[1].success

\* the rule list run() gets from parse_rules when the rule file lets it
ParsedRules == parse_rules(cfgStatus, cfgLines, placeholder_context).rules

\* the source root is there and the scan of this job selects no file
ZeroSelected ==
    /\ srcExists
    /\ cfgStatus # "unreadable"
    /\ \A p \in SrcPaths : ~should_copy(p, ParsedRules)

\* run() is in its copy phase (lines 80-103)
InCopyPhase == pc \in {"loop", "copy", "emit_progress", "finish"}

\* the per-file progress events emitted so far, by position in the stream
PerFileProgress ==
    {i \in 1..Len(progress) : progress[i].message = "migrating"}

\* C11: when the source root exists and the scan selects no file (no rule
\* accepts a file, or the rule file is missing and the list empty), the job
\* never enters the copy phase, makes no copy attempt, emits no per-file
\* progress event, leaves the destination as it was, and ends with the
\* success result carrying the nothing-to-migrate message.
C11_NothingToMigrate ==
    ZeroSelected =>
        /\ ~InCopyPhase
        /\ attempts = <<>>
        /\ PerFileProgress = {}
        /\ dstTree = dstInit
        /\ pc = "done" =>
              finished = <<FinishedEvent(TRUE, "nothing to migrate", <<>>)>>

\* a job over a source with files and a destination with files, whose rules
\* (some are parsed) accept none of the source files, has ended
C11_Witness ==
    /\ pc = "done" /\ ZeroSelected
    /\ srcTree # {} /\ jobRules # <<>> /\ dstInit # <<>>
    /\ Len(finished) = 1

\* C12: in every execution of run() the finished event is emitted exactly
\* once (never twice, and in the end once), and no progress event is emitted
\* after it.
C12_FinishedExactlyOnce ==
    /\ [](Len(finished) <= 1)
    /\ <>[](Len(finished) = 1)
    /\ [][finished # <<>> => progress' = progress]_vars

\* a run that was stopped after a failed copy attempt has ended
C12_Witness ==
    /\ pc = "done" /\ Len(finished) = 1
    /\ ~is_running
    /\ \E i \in 1..Len(attempts) : ~attempts[i].ok
    /\ PerFileProgress # {}

\* the i-th per-file progress event of the stream
NthPerFileProgress(i) ==
    progress[CHOOSE j \in PerFileProgress :
                Cardinality({k \in PerFileProgress : k <= j}) = i]

\* C13: a failed copy of a selected file does not abort the job: whatever
\* files fail (also all of them), a progress event is emitted for the failed
\* file as for any other, the terminal result of a job that attempted a copy
\* is success, and with no stop() every selected file is attempted.
C13_FailureDoesNotAbort ==
    /\ \A i \in 1..Len(attempts) :
          (i < Len(attempts) \/ pc # "emit_progress") =>
              /\ Cardinality(PerFileProgress) >= i
              /\ NthPerFileProgress(i).path = attempts[i].path
    /\ (pc = "done" /\ attempts # <<>>) =>
          finished = <<FinishedEvent(TRUE, "migration succeeded", <<>>)>>
    /\ (pc = "done" /\ srcExists /\ finished[1].success
           /\ stop_at = NotStopped) =>
          /\ Len(attempts) = Len(files_to_copy)
          /\ \A i \in 1..Len(attempts) : attempts[i].path = files_to_copy[i]

\* a job with no stop() in which the copy of the first of three selected
\* files failed, a later one succeeded and the last failed, has ended
C13_Witness ==
    /\ pc = "done" /\ stop_at = NotStopped
    /\ Len(attempts) = 3
    /\ ~attempts[1].ok /\ attempts[2].ok /\ ~attempts[3].ok
    /\ Cardinality(PerFileProgress) = 3
    /\ finished[1].success

\* stop() cleared the flag while run() was in its copy phase
StoppedInCopyPhase == stop_at.pc \in {"loop", "copy", "emit_progress", "finish"}

\* the number of selected files before the stop point: those attempted when
\* the flag was cleared and the one whose copy was in flight then
StopPoint == stop_at.attempts + (IF stop_at.pc = "copy" THEN 1 ELSE 0)

\* where the copy in flight when the flag was cleared writes
InFlightTargets ==
    IF stop_at.pc = "copy"
    THEN {CopyTarget(stop_at.dst, files_to_copy[stop_at.attempts + 1])}
    ELSE {}

\* C14: when stop() clears the flag during the copy phase the loop stops at
\* its next top: no selected file after the stop point is attempted or
\* copied, what the destination held when the flag was cleared (the files
\* copied till then) stays, and the job still ends with the success result.
C14_StopEndsLoopWithSuccess ==
    StoppedInCopyPhase =>
        /\ Len(attempts) <= StopPoint
        /\ \A p \in (DOMAIN dstTree \cup DOMAIN stop_at.dst) \ InFlightTargets :
              /\ p \in DOMAIN dstTree /\ p \in DOMAIN stop_at.dst
              /\ dstTree[p] = stop_at.dst[p]
        /\ \A i \in 1..stop_at.attempts :
              attempts[i].ok =>
                  \E p \in DOMAIN dstTree : dstTree[p] = SrcContent(attempts[i].path)
        /\ pc = "done" =>
              finished = <<FinishedEvent(TRUE, "migration succeeded", <<>>)>>

\* a job of three selected files stopped after the first was copied and its
\* progress emitted has ended: one file copied, two never attempted
C14_Witness ==
    /\ pc = "done"
    /\ stop_at.pc = "loop" /\ stop_at.attempts = 1
    /\ Len(files_to_copy) = 3 /\ Len(attempts) = 1 /\ attempts[1].ok
    /\ \E p \in DOMAIN dstTree : dstTree[p] = SrcContent(files_to_copy[1])
    /\ finished[1].success

\* stop() cleared the flag before the copy phase began
StoppedBeforeCopyPhase == stop_at.pc \in {"start", "parse", "emit_scan", "scan"}

\* C15: the flag is read only at the top of an iteration of the copy loop:
\* whenever stop() is called, at most one copy attempt completes after the
\* flag was cleared, and only the one in flight at that moment; when the
\* flag was cleared before the copy phase (before run(), during parsing or
\* scanning) the scan still returns the whole selection and no file is
\* copied.
C15_FlagReadAtLoopTopOnly ==
    /\ stop_at # NotStopped =>
          /\ Len(attempts) <= stop_at.attempts + 1
          /\ Len(attempts) > stop_at.attempts => stop_at.pc = "copy"
    /\ StoppedBeforeCopyPhase =>
          /\ attempts = <<>>
          /\ dstTree = dstInit
          /\ AfterScan =>
                /\ files_to_copy = scan_files(srcTree, ParsedRules, osSep)
                /\ Scanned = Accepted

\* a job stopped during the scan, whose scan selected two files or more, has
\* ended with nothing copied
C15_Witness ==
    /\ pc = "done"
    /\ stop_at.pc = "scan"
    /\ Len(files_to_copy) >= 2
    /\ attempts = <<>>
    /\ Len(finished) = 1 /\ finished[1].success

\* the failure result has been emitted
Failed == finished # <<>> /\ ~finished[1].success

\* C16: whenever the failure result is emitted, no copy attempt has been made
\* and the destination is as it was: the failure result comes from the phases
\* before copying only (source test, rule parsing, scan), never once a copy
\* has been attempted.
C16_FailureOnlyBeforeCopying ==
    /\ Failed =>
          /\ attempts = <<>>
          /\ copied_count = 0
          /\ PerFileProgress = {}
          /\ dstTree = dstInit
    /\ (attempts # <<>> \/ InCopyPhase) => ~Failed

\* a job over a source with files whose rule file cannot be read has ended
\* with the failure result, the destination holding what it held
C16_Witness ==
    /\ pc = "done" /\ Failed
    /\ srcExists /\ srcTree # {}
    /\ cfgStatus = "unreadable"
    /\ dstInit # <<>> /\ dstTree = dstInit

\* the attempts made are the first copied_count entries of the selection, in
\* scan order, each file once
AttemptsArePrefix ==
    /\ Len(attempts) = copied_count
    /\ copied_count <= Len(files_to_copy)
    /\ \A i \in 1..Len(attempts) : attempts[i].path = files_to_copy[i]
    /\ \A i, j \in 1..Len(attempts) :
          attempts[i].path = attempts[j].path => i = j
    /\ \A i \in 1..Len(attempts) : attempts[i].path \in Accepted

\* C19 as stated: at every point of a run the attempted files are the first
\* copied_count entries of the selection in scan order (each once, no gaps,
\* none from outside), and the per-file progress events emitted so far are
\* as many as the attempts.
C19_AsStated ==
    /\ AttemptsArePrefix
    /\ Cardinality(PerFileProgress) = Len(attempts)

\* C19 amended: the attempted files are the first copied_count entries of
\* the selection in scan order (each once, no gaps, none from outside); the
\* per-file progress events are as many as the attempts, but for the time
\* between an attempt and the emission of its progress event, when they are
\* one fewer; the k-th of them is for the k-th attempted file.
C19_ProgressFollowsAttempt ==
    /\ AttemptsArePrefix
    /\ Cardinality(PerFileProgress) =
          Len(attempts) - (IF pc = "emit_progress" THEN 1 ELSE 0)
    /\ \A k \in 1..Cardinality(PerFileProgress) :
          NthPerFileProgress(k).path = attempts[k].path

\* the copy of the first selected file failed, the second has been attempted
\* (not the first again) and its progress event is still to be emitted
C19_Witness ==
    /\ pc = "emit_progress"
    /\ Len(attempts) = 2 /\ ~attempts[1].ok
    /\ attempts[1].path # attempts[2].path
    /\ Cardinality(PerFileProgress) = 1
    /\ Len(files_to_copy) = 3

----------------------------------------------------------------------------
(* The percent of the progress events, over selections of up to MaxTotal    *)
(* files: the copy loop of run() with the effect of an attempt on the files *)
(* left out, which the percent does not depend on.                          *)

MaxTotal == 50

\* a selection of total files: the names "a", "aa", "aaa", ...
ManyFiles(total) == [i \in 1..total |-> [j \in 1..i |-> "a"]]

InitPercent ==
    /\ from_path = <<"v", "/", "a">>
    /\ to_path = <<"v", "/", "b">>
    /\ osSep = "/"
    /\ pc = "loop"
    /\ is_running = TRUE
    /\ srcExists = TRUE /\ srcTree = {}
    /\ dstInit = <<>> /\ dstTree = <<>>
    /\ cfgStatus = "missing" /\ cfgLines = <<>> /\ jobRules = <<>>
    /\ \E total \in 1..MaxTotal : files_to_copy = ManyFiles(total)
    /\ copied_count = 0
    /\ attempts = <<>>
    /\ progress = <<ProgressEvent(0, "scanning", <<>>)>>
    /\ finished = <<>>
    /\ stop_at = NotStopped
    /\ IdleMatch /\ IdleExpand /\ IdleParse

\* lines 86-99 less the files: the attempt is made and counted
CopyCounted ==
    /\ pc = "copy"
    /\ copied_count' = copied_count + 1
    /\ pc' = "emit_progress"
    /\ UNCHANGED <<is_running, stop_at, srcExists, srcTree, dstInit, dstTree,
                   cfgStatus, cfgLines, jobRules, files_to_copy, attempts,
                   progress, finished>>
    /\ UNCHANGED otherVars

NextPercent ==
    \/ LoopTop
    \/ CopyCounted
    \/ EmitProgress
    \/ Finish
    \/ Stop

SpecPercent == InitPercent /\ [][NextPercent]_vars

\* C17: with total > 0 selected files the progress event after the k-th
\* attempt carries floor(k * 100 / total); every percent of the run (the
\* scanning event's 0 included) lies in 0..100; percents never decrease; and
\* the last progress event before the terminal event carries 100 exactly
\* when every selected file was attempted.
C17_PercentIsFloor ==
    LET total == Len(files_to_copy)
    IN  /\ \A k \in 1..Cardinality(PerFileProgress) :
              NthPerFileProgress(k).percent = (k * 100) \div total
        /\ \A i \in 1..Len(progress) : progress[i].percent \in 0..100
        /\ \A i \in 1..(Len(progress) - 1) :
              progress[i].percent <= progress[i + 1].percent
        /\ (pc = "done" /\ total > 0) =>
              ((progress[Len(progress)].percent = 100) <=> (copied_count = total))

=============================================================================
